---- MODULE Spec2Model ----
(***************************************************************************)
(* 1SatOrdinals inscription scanner (lib/src/inscribe.rs).                 *)
(*                                                                         *)
(* OrdinalInscription::scan_tx walks the outputs of a transaction in index *)
(* order and calls OrdinalInscription::scan_output on each of them.        *)
(* scan_output gates on the output's value, decodes the script and runs a  *)
(* six-state scanner over the decoded operations.  The model follows one   *)
(* call of scan_tx: the transaction is the input, chosen in Init, and the  *)
(* actions are the steps of the two loops.                                 *)
(***************************************************************************)
EXTENDS Integers, Sequences, FiniteSets

(***************************************************************************)
(* Bounds of the model.                                                    *)
(***************************************************************************)
\* key/value pairs in front of the key-0 pair of a generated envelope
MaxPairs == 2
\* outputs of a generated multi-output transaction
MaxOutputs == 2

(***************************************************************************)
(* Option<T>: None, Some(x).                                               *)
(***************************************************************************)
None == <<>>
Some(x) == <<x>>

(***************************************************************************)
(* Byte strings (Bytes), as tuples of byte values.                         *)
(***************************************************************************)
\* "ord"
Ord == <<111, 114, 100>>
\* "ORD", "or", "ordx": pushes that are not the marker
OrdUpper == <<79, 82, 68>>
OrShort == <<111, 114>>
OrdX == <<111, 114, 100, 120>>
\* "{}" : a body
Body == <<123, 125>>
\* "t", "u": two field values
Mime == <<116>>
Alt == <<117>>
\* a public key hash (first bytes)
Pkh == <<9, 142>>

(***************************************************************************)
(* bitcoinsv::bitcoin::Operation, as far as the scanner looks at it: the   *)
(* opcode and, for a push of bytes, the bytes.                             *)
(***************************************************************************)
Op(name) == [opcode |-> name, data |-> <<>>]
OP_PUSH(d) == [opcode |-> "OP_PUSH", data |-> d]
OP_FALSE == Op("OP_FALSE")
OP_0 == Op("OP_0")
OP_IF == Op("OP_IF")
OP_ENDIF == Op("OP_ENDIF")
OP_1NEGATE == Op("OP_1NEGATE")
OP_1 == Op("OP_1")
OP_2 == Op("OP_2")
OP_DUP == Op("OP_DUP")
OP_HASH160 == Op("OP_HASH160")
OP_EQUALVERIFY == Op("OP_EQUALVERIFY")
OP_CHECKSIG == Op("OP_CHECKSIG")
\* An operation that is_data_push() reports as a push and for which
\* data_pushed() has no bytes to give: the answer that the `?` of line 147
\* handles.
OP_PUSH_NODATA == Op("OP_PUSH_NODATA")

\* op.eq_alias(&other): equality up to the aliases OP_0 / OP_FALSE
Canonical(op) == IF op = OP_0 THEN OP_FALSE ELSE op
eq_alias(op, other) == Canonical(op) = Canonical(other)

\* op.small_num_pushed(): the value of a minimal small-integer push
small_num_pushed(op) ==
    CASE op.opcode \in {"OP_FALSE", "OP_0"} -> Some(0)
      [] op.opcode = "OP_1NEGATE" -> Some(-1)
      [] op.opcode = "OP_1" -> Some(1)
      [] op.opcode = "OP_2" -> Some(2)
      [] OTHER -> None

\* op.is_data_push()
is_data_push(op) ==
    IF op.opcode \in {"OP_PUSH", "OP_PUSH_NODATA"} THEN TRUE
    ELSE small_num_pushed(op) # None

\* op.data_pushed(): the bytes an operation pushes
data_pushed(op) ==
    CASE op.opcode = "OP_PUSH" -> Some(op.data)
      [] op.opcode \in {"OP_FALSE", "OP_0"} -> Some(<<>>)
      [] op.opcode = "OP_1NEGATE" -> Some(<<129>>)
      [] op.opcode = "OP_1" -> Some(<<1>>)
      [] op.opcode = "OP_2" -> Some(<<2>>)
      [] OTHER -> None

(***************************************************************************)
(* BTreeMap<i64, Bytes>, as a set of <<key, value>> pairs with one pair    *)
(* per key.                                                                *)
(***************************************************************************)
BTreeMapNew == {}
\* variant: the first value of a key is kept (entry(k).or_insert(v))
BTreeMapInsertFirst(m, k, v) == IF k \in {p[1] : p \in m} THEN m ELSE m \cup {<<k, v>>}
BTreeMapInsert(m, k, v) == {p \in m : p[1] # k} \cup {<<k, v>>}
BTreeMapKeys(m) == {p[1] : p \in m}

\* a % b of Rust on i64: the remainder has the sign of the dividend
RustRem(a, b) == IF a >= 0 THEN a % b ELSE 0 - ((0 - a) % b)

(***************************************************************************)
(* The locals of scan_output's operation loop, as one record:              *)
(*   state, key, creation_data, metadata   the locals of lines 84-88       *)
(*   returned, ret                         whether the function has        *)
(*                                         returned from inside the loop   *)
(*                                         and with what                   *)
(***************************************************************************)
States == {"Initial", "OpFalseSeen", "OpIfSeen", "InEnvelope", "GotKey", "GotBody"}

LocalsNew ==
    [state |-> "Initial", key |-> 0, creation_data |-> BTreeMapNew,
     metadata |-> BTreeMapNew, returned |-> FALSE, ret |-> None]

\* Outpoint { tx_hash, index }
Outpoint(tx_hash, index) == [tx_hash |-> tx_hash, index |-> index]

\* variant: the record claims to be a creation
InscriptionCreation(tx_id, index, creation_data, metadata) ==
    [id |-> Outpoint(tx_id, index),
     prev_id |-> None,
     new_address |-> None,
     must_be_creation |-> TRUE,
     creation_data |-> creation_data,
     metadata |-> metadata]

\* the record built at lines 170-180
Inscription(tx_id, index, creation_data, metadata) ==
    [id |-> Outpoint(tx_id, index),
     prev_id |-> None,
     new_address |-> None,
     must_be_creation |-> FALSE,
     creation_data |-> creation_data,
     metadata |-> metadata]

\* State::Initial: looking for the initial OP_FALSE
OnInitial(op, l) ==
    IF eq_alias(op, OP_FALSE)
    THEN [l EXCEPT !.state = "OpFalseSeen"]
    ELSE l

\* variant: an op that is not OP_IF is tested again as the start of a marker
OnOpFalseSeenRetests(op, l) ==
    IF op = OP_IF
    THEN [l EXCEPT !.state = "OpIfSeen"]
    ELSE IF eq_alias(op, OP_FALSE)
         THEN [l EXCEPT !.state = "OpFalseSeen"]
         ELSE [l EXCEPT !.state = "Initial"]

\* State::OpFalseSeen: the next op must be OP_IF
OnOpFalseSeen(op, l) ==
    IF op = OP_IF
    THEN [l EXCEPT !.state = "OpIfSeen"]
    ELSE [l EXCEPT !.state = "Initial"]

\* variant: any push of three bytes opens the envelope
OnOpIfSeenAnyThree(op, l) ==
    IF data_pushed(op) = None
    THEN [l EXCEPT !.state = "Initial"]
    ELSE IF Len(data_pushed(op)[1]) # 3
         THEN [l EXCEPT !.state = "Initial"]
         ELSE [l EXCEPT !.creation_data = BTreeMapNew,
                        !.metadata = BTreeMapNew,
                        !.key = 0,
                        !.state = "InEnvelope"]

\* variant: the maps and the key are not reset at "ord"
OnOpIfSeenKeeps(op, l) ==
    IF data_pushed(op) = None
    THEN [l EXCEPT !.state = "Initial"]
    ELSE IF data_pushed(op)[1] = Ord
         THEN [l EXCEPT !.state = "InEnvelope"]
         ELSE [l EXCEPT !.state = "Initial"]

\* State::OpIfSeen: the next op must push "ord"
OnOpIfSeen(op, l) ==
    IF data_pushed(op) = None
    THEN [l EXCEPT !.state = "Initial"]
    ELSE LET d == data_pushed(op)[1] IN
         IF Len(d) # 3
         THEN [l EXCEPT !.state = "Initial"]
         ELSE IF SubSeq(d, 1, 3) = Ord
              THEN [l EXCEPT !.creation_data = BTreeMapNew,
                             !.metadata = BTreeMapNew,
                             !.key = 0,
                             !.state = "InEnvelope"]
              ELSE [l EXCEPT !.state = "Initial"]

\* variant: any push is taken as a key, a push of bytes as key 0
OnInEnvelopeAnyPush(op, l) ==
    IF is_data_push(op)
    THEN IF small_num_pushed(op) # None
         THEN [l EXCEPT !.key = small_num_pushed(op)[1], !.state = "GotKey"]
         ELSE [l EXCEPT !.key = 0, !.state = "GotKey"]
    ELSE [l EXCEPT !.state = "Initial"]

\* State::InEnvelope: the next op must be a key
OnInEnvelope(op, l) ==
    IF is_data_push(op)
    THEN IF small_num_pushed(op) # None
         THEN [l EXCEPT !.key = small_num_pushed(op)[1], !.state = "GotKey"]
         ELSE [l EXCEPT !.state = "Initial"]
    ELSE [l EXCEPT !.state = "Initial"]

\* variant: creation_data is chosen by key % 2 == 1
ToMetadataRemOne(key) == RustRem(key, 2) # 1

\* the map a value goes to (lines 149-153): TRUE for metadata
ToMetadata(key) == RustRem(key, 2) = 0

\* variant: every even key ends the field list
OnGotKeyEvenEnds(op, l) ==
    IF is_data_push(op)
    THEN IF data_pushed(op) = None
         THEN [l EXCEPT !.returned = TRUE, !.ret = None]
         ELSE LET d == data_pushed(op)[1]
                  stored == IF ToMetadata(l.key)
                            THEN [l EXCEPT !.metadata = BTreeMapInsert(@, l.key, d)]
                            ELSE [l EXCEPT !.creation_data = BTreeMapInsert(@, l.key, d)]
              IN IF RustRem(l.key, 2) = 0
                 THEN [stored EXCEPT !.state = "GotBody"]
                 ELSE [stored EXCEPT !.state = "InEnvelope"]
    ELSE [l EXCEPT !.state = "Initial"]

\* State::GotKey: the next op must be a value
OnGotKey(op, l) ==
    IF is_data_push(op)
    THEN IF data_pushed(op) = None
         \* let d = op.data_pushed()?;  returns None from scan_output
         THEN [l EXCEPT !.returned = TRUE, !.ret = None]
         ELSE LET d == data_pushed(op)[1]
                  stored == IF ToMetadata(l.key)
                            THEN [l EXCEPT !.metadata = BTreeMapInsert(@, l.key, d)]
                            ELSE [l EXCEPT !.creation_data = BTreeMapInsert(@, l.key, d)]
              IN IF l.key = 0
                 THEN [stored EXCEPT !.state = "GotBody"]
                 ELSE [stored EXCEPT !.state = "InEnvelope"]
    ELSE [l EXCEPT !.state = "Initial"]

\* variant: an operation other than OP_ENDIF after the body is taken as one
\* more key position
OnGotBodyBackToEnvelope(op, l, tx_id, index) ==
    IF op # OP_ENDIF
    THEN [l EXCEPT !.state = "InEnvelope"]
    ELSE [l EXCEPT !.returned = TRUE,
                   !.ret = Some(Inscription(tx_id, index, l.creation_data, l.metadata))]

\* State::GotBody: the next op must close the envelope
OnGotBody(op, l, tx_id, index) ==
    IF op # OP_ENDIF
    THEN [l EXCEPT !.state = "Initial"]
    ELSE [l EXCEPT !.returned = TRUE,
                   !.ret = Some(Inscription(tx_id, index, l.creation_data, l.metadata))]

\* one turn of the loop of lines 89-184
Step(op, l, tx_id, index) ==
    CASE l.state = "Initial" -> OnInitial(op, l)
      [] l.state = "OpFalseSeen" -> OnOpFalseSeen(op, l)
      [] l.state = "OpIfSeen" -> OnOpIfSeen(op, l)
      [] l.state = "InEnvelope" -> OnInEnvelope(op, l)
      [] l.state = "GotKey" -> OnGotKey(op, l)
      [] l.state = "GotBody" -> OnGotBody(op, l, tx_id, index)

\* variant: the loop goes on after a closed envelope and reports the last one
RECURSIVE ScanOpsLast(_, _, _, _, _)
ScanOpsLast(ops, i, l, tx_id, index) ==
    IF i > Len(ops) THEN l.ret
    ELSE LET n == Step(ops[i], [l EXCEPT !.returned = FALSE], tx_id, index)
         IN ScanOpsLast(ops, i + 1,
                        IF n.returned THEN [n EXCEPT !.state = "Initial"] ELSE n,
                        tx_id, index)

\* the loop from operation i on; None when the operations run out (line 185)
RECURSIVE ScanOps(_, _, _, _, _)
ScanOps(ops, i, l, tx_id, index) ==
    IF l.returned THEN l.ret
    ELSE IF i > Len(ops) THEN None
    ELSE ScanOps(ops, i + 1, Step(ops[i], l, tx_id, index), tx_id, index)

\* txo.script.decode(): Ok((ops, trailing)) or Err
ScriptOf(ops) == [ok |-> TRUE, ops |-> ops]
BadScript == [ok |-> FALSE, ops |-> <<>>]
decode(script) == IF script.ok THEN Some(script.ops) ELSE None

\* variant: the gate lets every value of at least one satoshi through
IsOneSatOrMore(txo) == txo.value >= 1

\* the value gate of line 79
IsOneSat(txo) == txo.value = 1

\* scan_output as a function of its arguments
scan_output(txo, tx_id, index) ==
    IF ~IsOneSat(txo) THEN None
    ELSE IF decode(txo.script) = None THEN None
    ELSE ScanOps(decode(txo.script)[1], 1, LocalsNew, tx_id, index)

(***************************************************************************)
(* The inputs: scripts and transactions.                                   *)
(***************************************************************************)
\* the operation that pushes a small integer as a key
KeyOp(k) ==
    CASE k = 0 -> OP_FALSE
      [] k = -1 -> OP_1NEGATE
      [] k = 1 -> OP_1
      [] k = 2 -> OP_2

\* <<key, value>> pairs with a key other than 0
FieldPairs == {<<-1, Mime>>, <<1, Mime>>, <<1, Alt>>, <<2, Alt>>}

\* the sequences of at most MaxPairs of them
PairSeqs == UNION {[1..n -> FieldPairs] : n \in 0..MaxPairs}

RECURSIVE PairOps(_)
PairOps(pairs) ==
    IF pairs = <<>> THEN <<>>
    ELSE <<KeyOp(Head(pairs)[1]), OP_PUSH(Head(pairs)[2])>> \o PairOps(Tail(pairs))

\* OP_FALSE OP_IF "ord" (key value)* 0 body OP_ENDIF
Envelope(pairs, body) ==
    <<OP_FALSE, OP_IF, OP_PUSH(Ord)>> \o PairOps(pairs)
        \o <<OP_FALSE, OP_PUSH(body), OP_ENDIF>>

Envelopes == {Envelope(pairs, Body) : pairs \in PairSeqs}

\* what one operation of a script may be replaced with
Operations ==
    {OP_FALSE, OP_IF, OP_ENDIF, OP_DUP, OP_1NEGATE, OP_1, OP_2, OP_PUSH_NODATA,
     OP_PUSH(Ord), OP_PUSH(OrdUpper), OP_PUSH(OrShort), OP_PUSH(OrdX), OP_PUSH(Body)}

Replace(ops, i, op) == [ops EXCEPT ![i] = op]

\* an envelope, an envelope cut short, an envelope with one operation replaced
Attempts ==
    Envelopes
      \cup {SubSeq(e, 1, n) : <<e, n>> \in {<<e, n>> \in Envelopes \X (0..(2 * MaxPairs + 6)) : n < Len(e)}}
      \cup {Replace(x[1], x[2], x[3]) :
              x \in {y \in Envelopes \X (1..(2 * MaxPairs + 6)) \X Operations : y[2] <= Len(y[1])}}

\* pay to public key hash
P2pkh == <<OP_DUP, OP_HASH160, OP_PUSH(Pkh), OP_EQUALVERIFY, OP_CHECKSIG>>

Before == {<<>>, <<OP_FALSE>>, <<OP_DUP>>}
After == {<<>>, P2pkh, Envelope(<<>>, Body)}

\* the scripts of the one-output transactions
Scripts == {b \o a \o c : <<b, a, c>> \in Before \X Attempts \X After}

TxHashes == {"h1", "h2"}

\* the outputs of the multi-output transactions
SomeScripts ==
    {ScriptOf(Envelope(<<>>, Body)), ScriptOf(Envelope(<<<<1, Mime>>>>, Body)),
     ScriptOf(P2pkh), BadScript}
SomeOutputs == [value : {0, 1, 2}, script : SomeScripts]

\* the transaction of tests::scan_tx (lines 223-226)
ContentType == <<97, 112, 112, 108, 105, 99, 97, 116, 105, 111, 110, 47, 98, 115, 118, 45, 50, 48>>
Json25 == <<123, 34, 112, 34, 58, 34, 98, 115, 118, 45, 50, 48, 34, 44, 34, 111, 112, 34, 58, 34, 116, 114, 97, 110, 115, 102, 101, 114, 34, 44, 34, 97, 109, 116, 34, 58, 34, 50, 53, 34, 44, 34, 116, 105, 99, 107, 34, 58, 34, 76, 79, 76, 34, 125>>
Json2864387 == <<123, 34, 112, 34, 58, 34, 98, 115, 118, 45, 50, 48, 34, 44, 34, 111, 112, 34, 58, 34, 116, 114, 97, 110, 115, 102, 101, 114, 34, 44, 34, 97, 109, 116, 34, 58, 34, 50, 56, 54, 52, 51, 56, 55, 34, 44, 34, 116, 105, 99, 107, 34, 58, 34, 76, 79, 76, 34, 125>>
Bsv20Script(json) ==
    ScriptOf(<<OP_0, OP_IF, OP_PUSH(Ord), OP_1, OP_PUSH(ContentType), OP_0, OP_PUSH(json),
               OP_ENDIF>> \o P2pkh)
TestTx ==
    [hash |-> "1fefad9e",
     outputs |-> <<[value |-> 1, script |-> Bsv20Script(Json25)],
                   [value |-> 1, script |-> Bsv20Script(Json2864387)],
                   [value |-> 2000, script |-> ScriptOf(P2pkh)],
                   [value |-> 2832608, script |-> ScriptOf(P2pkh)]>>]

\* the transactions of tests::scan_empty_tx (lines 205-212): a coinbase, an
\* OP_RETURN data carrier, seven pay to public key hash outputs
OP_RETURN == Op("OP_RETURN")
EmptyTxs ==
    {[hash |-> "39b93034",
      outputs |-> <<[value |-> 312511008, script |-> ScriptOf(P2pkh)]>>],
     [hash |-> "f20ff38a",
      outputs |-> <<[value |-> 0,
                     script |-> ScriptOf(<<OP_FALSE, OP_RETURN, OP_PUSH(Mime), OP_PUSH(Alt),
                                           OP_PUSH(Body), OP_PUSH(Pkh)>>)]>>],
     [hash |-> "5b45f039",
      outputs |-> [i \in 1..7 |->
                     [value |-> <<5000000, 1000000, 200000, 50000, 20000, 2000, 127726>>[i],
                      script |-> ScriptOf(P2pkh)]]]}

Txs ==
    {[hash |-> "h1", outputs |-> <<[value |-> 1, script |-> ScriptOf(s)]>>] : s \in Scripts}
      \cup {[hash |-> h, outputs |-> os] :
              <<h, os>> \in TxHashes \X UNION {[1..n -> SomeOutputs] : n \in 0..MaxOutputs}}
      \cup {TestTx}
      \cup EmptyTxs

(***************************************************************************)
(* The state of one call of scan_tx.                                       *)
(*   tx                       the argument                                 *)
(*   pc                       where the call is: "scan_tx" (head of the    *)
(*                            output loop), "scan_output" (scan_output     *)
(*                            entered), "ops" (head of the operation       *)
(*                            loop), "returned" (scan_output has returned  *)
(*                            to scan_tx), "done" (scan_tx has returned)   *)
(*   cursor                   how many outputs the iterator of the loop of *)
(*                            scan_tx has yielded                          *)
(*   index, result            the locals of scan_tx                        *)
(*   out                      what scan_tx returned                        *)
(*   decoded                  whether this call of scan_output has called  *)
(*                            txo.script.decode()                          *)
(*   ops, pos                 the decoded operations and the place of the  *)
(*                            next one                                     *)
(*   state, key, creation_data, metadata   the locals of scan_output       *)
(*   ret                      what scan_output returned                    *)
(*   seen                     what the caller has got so far: the pairs    *)
(*                            <<argument, value returned>> of the calls of *)
(*                            scan_tx that have returned                   *)
(***************************************************************************)
VARIABLES tx, pc, cursor, index, result, out, decoded, ops, pos,
          state, key, creation_data, metadata, ret, seen

vars == <<tx, pc, cursor, index, result, out, decoded, ops, pos,
          state, key, creation_data, metadata, ret, seen>>

txvars == <<tx, cursor, index, result, out, seen>>
locals == <<state, key, creation_data, metadata>>

\* OrdinalResult<T>
Ok(v) == [ok |-> TRUE, value |-> v]

\* the output the loop of scan_tx is at: `o` of line 60
txo == tx.outputs[cursor]

Locals ==
    [state |-> state, key |-> key, creation_data |-> creation_data,
     metadata |-> metadata, returned |-> FALSE, ret |-> None]

\* scan_tx is entered (lines 57-59) with the locals of scan_output not yet
\* there
Entered ==
    /\ pc = "scan_tx"
    /\ cursor = 0
    /\ index = 0
    /\ result = <<>>
    /\ out = None
    /\ decoded = FALSE
    /\ ops = <<>>
    /\ pos = 0
    /\ state = "Initial"
    /\ key = 0
    /\ creation_data = BTreeMapNew
    /\ metadata = BTreeMapNew
    /\ ret = None
    /\ seen = {}

Init == tx \in Txs /\ Entered

\* scan_tx, lines 60-62: the loop takes the next output and calls scan_output
ScanTxCall ==
    /\ pc = "scan_tx"
    /\ cursor < Len(tx.outputs)
    /\ cursor' = cursor + 1
    /\ pc' = "scan_output"
    /\ decoded' = FALSE
    /\ ops' = <<>>
    /\ pos' = 0
    /\ state' = "Initial"
    /\ key' = 0
    /\ creation_data' = BTreeMapNew
    /\ metadata' = BTreeMapNew
    /\ ret' = None
    /\ UNCHANGED <<tx, index, result, out, seen>>

\* scan_output, lines 79-80: the value is not one satoshi
OutputNotOneSat ==
    /\ pc = "scan_output"
    /\ ~IsOneSat(txo)
    /\ ret' = None
    /\ pc' = "returned"
    /\ UNCHANGED <<txvars, decoded, ops, pos, locals>>

\* variant: a script that does not decode ends scan_tx with an error
OutputDecodeErrAborts ==
    /\ pc = "scan_output"
    /\ IsOneSat(txo)
    /\ decode(txo.script) = None
    /\ decoded' = TRUE
    /\ out' = Some([ok |-> FALSE, value |-> "BadArgument"])
    /\ pc' = "done"
    /\ UNCHANGED <<tx, cursor, index, result, ops, pos, locals, ret, seen>>

\* scan_output, lines 82 and 187-190: the script does not decode
OutputDecodeErr ==
    /\ pc = "scan_output"
    /\ IsOneSat(txo)
    /\ decode(txo.script) = None
    /\ decoded' = TRUE
    /\ ret' = None
    /\ pc' = "returned"
    /\ UNCHANGED <<txvars, ops, pos, locals>>

\* scan_output, lines 82-88: the script decodes, the locals are set up
OutputDecodeOk ==
    /\ pc = "scan_output"
    /\ IsOneSat(txo)
    /\ decode(txo.script) # None
    /\ decoded' = TRUE
    /\ ops' = decode(txo.script)[1]
    /\ pos' = 1
    /\ state' = LocalsNew.state
    /\ key' = LocalsNew.key
    /\ creation_data' = LocalsNew.creation_data
    /\ metadata' = LocalsNew.metadata
    /\ pc' = "ops"
    /\ UNCHANGED <<txvars, ret>>

\* the locals after a turn of the operation loop, and where the turn leaves
\* the call
TurnStays(l) ==
    /\ state' = l.state
    /\ key' = l.key
    /\ creation_data' = l.creation_data
    /\ metadata' = l.metadata
    /\ ret' = l.ret
    /\ pc' = IF l.returned THEN "returned" ELSE "ops"
    /\ pos' = pos
    /\ UNCHANGED <<txvars, decoded, ops>>

Turn(l) ==
    /\ state' = l.state
    /\ key' = l.key
    /\ creation_data' = l.creation_data
    /\ metadata' = l.metadata
    /\ ret' = l.ret
    /\ pc' = IF l.returned THEN "returned" ELSE "ops"
    /\ pos' = pos + 1
    /\ UNCHANGED <<txvars, decoded, ops>>

AtOp(s) == pc = "ops" /\ pos <= Len(ops) /\ state = s

\* the arms of the match of lines 90-183
OpInitial == AtOp("Initial") /\ Turn(OnInitial(ops[pos], Locals))
OpOpFalseSeen == AtOp("OpFalseSeen") /\ Turn(OnOpFalseSeen(ops[pos], Locals))
OpOpIfSeen == AtOp("OpIfSeen") /\ Turn(OnOpIfSeen(ops[pos], Locals))
OpInEnvelope == AtOp("InEnvelope") /\ Turn(OnInEnvelope(ops[pos], Locals))
OpGotKey == AtOp("GotKey") /\ Turn(OnGotKey(ops[pos], Locals))
OpGotBody == AtOp("GotBody") /\ Turn(OnGotBody(ops[pos], Locals, tx.hash, index))

\* line 185: the operations have run out
OpsExhaustedPartial ==
    /\ pc = "ops"
    /\ pos > Len(ops)
    /\ ret' = IF state = "GotBody"
              THEN Some(Inscription(tx.hash, index, creation_data, metadata))
              ELSE None
    /\ pc' = "returned"
    /\ UNCHANGED <<txvars, decoded, ops, pos, locals>>

OpsExhausted ==
    /\ pc = "ops"
    /\ pos > Len(ops)
    /\ ret' = None
    /\ pc' = "returned"
    /\ UNCHANGED <<txvars, decoded, ops, pos, locals>>

\* lines 62-68: what scan_tx does with what scan_output returned
Collect(r, found) == IF found = None THEN r ELSE Append(r, found[1])

\* variant: the index advances only past an output with a record
NextIndexOnFound(i, found) == IF found = None THEN i ELSE i + 1

\* line 69: index += 1
NextIndex(i, found) == i + 1

\* scan_tx, lines 62-69
ScanTxCollect ==
    /\ pc = "returned"
    /\ result' = Collect(result, ret)
    /\ index' = NextIndex(index, ret)
    /\ pc' = "scan_tx"
    /\ UNCHANGED <<tx, cursor, out, decoded, ops, pos, locals, ret, seen>>

\* scan_tx, line 71
ScanTxReturn ==
    /\ pc = "scan_tx"
    /\ cursor >= Len(tx.outputs)
    /\ out' = Some(Ok(result))
    /\ seen' = seen \cup {<<tx, out'>>}
    /\ pc' = "done"
    /\ UNCHANGED <<tx, cursor, index, result, decoded, ops, pos, locals, ret>>

Next ==
    \/ ScanTxCall
    \/ OutputNotOneSat
    \/ OutputDecodeErr
    \/ OutputDecodeOk
    \/ OpInitial
    \/ OpOpFalseSeen
    \/ OpOpIfSeen
    \/ OpInEnvelope
    \/ OpGotKey
    \/ OpGotBody
    \/ OpsExhausted
    \/ ScanTxCollect
    \/ ScanTxReturn

Spec == Init /\ [][Next]_vars

(***************************************************************************)
(* Several calls of scan_tx, one after the other, by one caller.           *)
(***************************************************************************)
\* the transactions the caller scans, in any order and any number of times
CallTxs ==
    {[hash |-> "h1",
      outputs |-> <<[value |-> 1, script |-> ScriptOf(Envelope(<<<<1, Mime>>>>, Body))],
                    [value |-> 1, script |-> BadScript]>>],
     [hash |-> "h1",
      outputs |-> <<[value |-> 2, script |-> ScriptOf(Envelope(<<>>, Body))],
                    [value |-> 1, script |-> ScriptOf(Envelope(<<<<2, Alt>>>>, Body))]>>],
     [hash |-> "h2",
      outputs |-> <<[value |-> 1,
                     script |-> ScriptOf(<<OP_FALSE, OP_IF, OP_PUSH(Ord), OP_1, OP_PUSH(Alt),
                                           OP_DUP>> \o Envelope(<<>>, Body))]>>],
     [hash |-> "h2", outputs |-> <<[value |-> 1, script |-> ScriptOf(P2pkh)]>>]}

InitCalls == tx \in CallTxs /\ Entered

\* variant: result is not a new Vec in each call
ScanTxAgainKeepsResult ==
    /\ pc = "done"
    /\ tx' \in CallTxs
    /\ pc' = "scan_tx"
    /\ cursor' = 0
    /\ index' = 0
    /\ out' = None
    /\ UNCHANGED <<result, decoded, ops, pos, locals, ret, seen>>

\* scan_tx, lines 57-59: the next call; its result and index are new, and
\* nothing of the call before is read
ScanTxAgain ==
    /\ pc = "done"
    /\ tx' \in CallTxs
    /\ pc' = "scan_tx"
    /\ cursor' = 0
    /\ index' = 0
    /\ result' = <<>>
    /\ out' = None
    /\ UNCHANGED <<decoded, ops, pos, locals, ret, seen>>

NextCalls ==
    \/ ScanTxCall
    \/ OutputNotOneSat
    \/ OutputDecodeErr
    \/ OutputDecodeOk
    \/ OpInitial
    \/ OpOpFalseSeen
    \/ OpOpIfSeen
    \/ OpInEnvelope
    \/ OpGotKey
    \/ OpGotBody
    \/ OpsExhausted
    \/ ScanTxCollect
    \/ ScanTxReturn
    \/ ScanTxAgain

SpecCalls == InitCalls /\ [][NextCalls]_vars

TypeOK ==
    /\ pc \in {"scan_tx", "scan_output", "ops", "returned", "done"}
    /\ state \in States
    /\ cursor \in 0..Len(tx.outputs)
    /\ index \in 0..Len(tx.outputs)
    /\ pos \in 0..(Len(ops) + 1)

(***************************************************************************)
(* Properties.                                                             *)
(***************************************************************************)
\* whether an integer of the range of the keys is even, is odd
IsEven(k) == \E m \in -16..16 : k = 2 * m
IsOdd(k) == \E m \in -16..16 : k = 2 * m + 1

\* scan_output has returned to scan_tx
Returned == pc = "returned"
\* scan_output has returned after it ran the operation loop
ReturnedFromOps == pc = "returned" /\ decoded /\ decode(txo.script) # None

\* an envelope with nothing in front and nothing behind:
\* OP_FALSE OP_IF "ord" (key value)* 0 body OP_ENDIF
NPairs(s) == (Len(s) - 4) \div 2
KeyAt(s, j) == small_num_pushed(s[2 + 2 * j])
ValueAt(s, j) == data_pushed(s[3 + 2 * j])
WellFormed(s) ==
    /\ Len(s) >= 6
    /\ Len(s) % 2 = 0
    /\ eq_alias(s[1], OP_FALSE)
    /\ s[2] = OP_IF
    /\ s[3].opcode = "OP_PUSH"
    /\ s[3].data = Ord
    /\ s[Len(s)] = OP_ENDIF
    /\ \A j \in 1..NPairs(s) :
         /\ KeyAt(s, j) # None
         /\ ValueAt(s, j) # None
         /\ (KeyAt(s, j)[1] = 0) <=> (j = NPairs(s))
\* its key/value pairs, in the order of the script
PairsOf(s) == [j \in 1..NPairs(s) |-> <<KeyAt(s, j)[1], ValueAt(s, j)[1]>>]
PairSet(pairs) == {pairs[j] : j \in DOMAIN pairs}
\* the pairs that are the last of their key
LastPairs(pairs) ==
    {pairs[j] : j \in {i \in DOMAIN pairs :
                         \A i2 \in DOMAIN pairs : i2 > i => pairs[i2][1] # pairs[i][1]}}

\* C1: an output whose value is not one satoshi makes scan_output return
\* None, whatever its script holds, and the script is neither decoded nor
\* scanned.
C1_ValueGate ==
    (Returned /\ txo.value # 1)
        => /\ ret = None
           /\ ~decoded
           /\ ops = <<>>
           /\ pos = 0
           /\ scan_output(txo, tx.hash, index) = None

\* C1 happens: scan_output has returned for an output of two satoshis whose
\* script is a whole envelope.
C1_Witness ==
    /\ Returned
    /\ txo.value = 2
    /\ txo.script.ok
    /\ WellFormed(txo.script.ops)

\* C2, as amended: for a one-satoshi output whose operations are a
\* well-formed envelope, scan_output returns a record whose id is (hash of
\* the transaction, index of the output), whose creation_data holds the
\* pairs with an odd key and whose metadata holds the pairs with an even key,
\* where of the pairs with the same key the one read last is held; and the
\* transaction of tests::scan_tx yields its two records, in output order.
C2_EnvelopeRecord ==
    /\ (ReturnedFromOps /\ WellFormed(ops))
          => /\ ret # None
             /\ ret[1].id = [tx_hash |-> tx.hash, index |-> cursor - 1]
             /\ ret[1].creation_data
                  = {p \in LastPairs(PairsOf(ops)) : IsOdd(p[1])}
             /\ ret[1].metadata
                  = {p \in LastPairs(PairsOf(ops)) : IsEven(p[1])}
             /\ ret[1].creation_data \cup ret[1].metadata = LastPairs(PairsOf(ops))
    /\ (pc = "done" /\ tx = TestTx)
          => /\ Len(result) = 2
             /\ result[1].id = [tx_hash |-> TestTx.hash, index |-> 0]
             /\ result[1].creation_data = {<<1, ContentType>>}
             /\ result[1].metadata = {<<0, Json25>>}
             /\ result[2].id = [tx_hash |-> TestTx.hash, index |-> 1]
             /\ result[2].creation_data = {<<1, ContentType>>}
             /\ result[2].metadata = {<<0, Json2864387>>}

\* C2 happens: a well-formed envelope with an odd and an even key besides
\* key 0 has been scanned.
C2_Witness ==
    /\ ReturnedFromOps
    /\ WellFormed(ops)
    /\ ret # None
    /\ \E p \in PairSet(PairsOf(ops)) : IsOdd(p[1])
    /\ \E p \in PairSet(PairsOf(ops)) : IsEven(p[1]) /\ p[1] # 0

\* C2 as stated: the two maps together hold exactly the pairs of the
\* envelope, split by the parity of the key.
C2_AllPairsKept ==
    (ReturnedFromOps /\ WellFormed(ops))
        => /\ ret # None
           /\ ret[1].id = [tx_hash |-> tx.hash, index |-> cursor - 1]
           /\ ret[1].creation_data = {p \in PairSet(PairsOf(ops)) : IsOdd(p[1])}
           /\ ret[1].metadata = {p \in PairSet(PairsOf(ops)) : IsEven(p[1])}

\* the records scan_output and scan_tx have produced so far
Records ==
    {result[j] : j \in DOMAIN result} \cup (IF Returned /\ ret # None THEN {ret[1]} ELSE {})

\* C3: in every record every key of creation_data is odd, every key of
\* metadata is even, and metadata has key 0.
C3_KeyParity ==
    \A r \in Records :
        /\ \A k \in BTreeMapKeys(r.creation_data) : IsOdd(k)
        /\ \A k \in BTreeMapKeys(r.metadata) : IsEven(k)
        /\ 0 \in BTreeMapKeys(r.metadata)

\* C3 happens: a record with a negative odd key, and one with an even key
\* other than 0.
C3_Witness ==
    /\ Returned
    /\ ret # None
    /\ BTreeMapKeys(ret[1].creation_data) \cap {-1, 1} # {}
    /\ 2 \in BTreeMapKeys(ret[1].metadata)

\* the positions (from 0) of the outputs for which scan_output, called on its
\* own, returns a record
Matching ==
    {i \in 0..(Len(tx.outputs) - 1) : scan_output(tx.outputs[i + 1], tx.hash, i) # None}

\* C4: scan_tx returns records of strictly increasing id.index, and the
\* indices are those of the outputs for which scan_output on its own returns
\* a record (the record is that one); an output without a record advances
\* the index all the same.
C4_IndexOrder ==
    /\ (pc = "done")
          => /\ \A j, k \in DOMAIN result : j < k => result[j].id.index < result[k].id.index
             /\ {result[j].id.index : j \in DOMAIN result} = Matching
             /\ \A j \in DOMAIN result :
                  Some(result[j])
                    = scan_output(tx.outputs[result[j].id.index + 1], tx.hash,
                                  result[j].id.index)
    /\ (pc \in {"scan_output", "ops", "returned"}) => index = cursor - 1
    /\ (pc \in {"scan_tx", "done"}) => index = cursor

\* C4 happens: scan_tx has returned one record, of the second of two outputs.
C4_Witness ==
    /\ pc = "done"
    /\ Len(tx.outputs) >= 2
    /\ Len(result) = 1
    /\ result[1].id.index = 1

\* whether the marker is in a script: an OP_FALSE push, OP_IF and a push of
\* the three bytes "ord", one after the other
HasMarker(s) ==
    \E i \in 1..(Len(s) - 2) :
        /\ eq_alias(s[i], OP_FALSE)
        /\ s[i + 1] = OP_IF
        /\ s[i + 2].opcode = "OP_PUSH"
        /\ s[i + 2].data = Ord

C6_NeverErr ==
    (pc = "done")
        => /\ out # None
           /\ out[1].ok
           /\ out[1].value = result
           /\ cursor = Len(tx.outputs)
           /\ \A i \in 0..(Len(tx.outputs) - 1) :
                /\ ~tx.outputs[i + 1].script.ok
                     => ~\E j \in DOMAIN result : result[j].id.index = i
                /\ scan_output(tx.outputs[i + 1], tx.hash, i) # None
                     => \E j \in DOMAIN result :
                          Some(result[j]) = scan_output(tx.outputs[i + 1], tx.hash, i)

\* C6 happens: scan_tx has returned for a transaction whose first output is
\* one satoshi with a script that does not decode and whose second output
\* has a record.
C6_Witness ==
    /\ pc = "done"
    /\ Len(tx.outputs) = 2
    /\ tx.outputs[1].value = 1
    /\ ~tx.outputs[1].script.ok
    /\ Len(result) = 1
    /\ result[1].id.index = 1

\* scan_output on a script of its own
ScanScript(s) == ScanOps(s, 1, LocalsNew, tx.hash, cursor - 1)

\* C7: the first closed envelope is the one reported: scan_output returns a
\* record right at the OP_ENDIF that closes it, and a script that has a
\* beginning for which scan_output returns a record gets that same record.
C7_FirstEnvelopeOnly ==
    /\ (pc = "ops" /\ pos = 1)
          => \A n \in 0..Len(ops) :
               ScanScript(SubSeq(ops, 1, n)) # None
                 => ScanScript(ops) = ScanScript(SubSeq(ops, 1, n))
    /\ (ReturnedFromOps /\ ret # None)
          => /\ ops[pos - 1] = OP_ENDIF
             /\ ret = ScanScript(SubSeq(ops, 1, pos - 1))
             /\ ret = ScanScript(ops)

\* C7 happens: a record has been returned with a second whole envelope
\* still unread behind the first.
C7_Witness ==
    /\ ReturnedFromOps
    /\ ret # None
    /\ pos <= Len(ops)
    /\ ScanScript(SubSeq(ops, pos, Len(ops))) # None
    /\ ScanScript(SubSeq(ops, pos, Len(ops))) # ret

\* C8: a script without the marker has no record.
C8_NoMarkerNoRecord ==
    (ReturnedFromOps /\ ~HasMarker(ops)) => ret = None

\* C8 happens: a script that lacks only the marker's "ord" (it pushes "ORD")
\* has been scanned to its end.
C8_Witness ==
    /\ ReturnedFromOps
    /\ ~HasMarker(ops)
    /\ Len(ops) >= 6
    /\ WellFormed(Replace(ops, 3, OP_PUSH(Ord)))
    /\ ops[3] = OP_PUSH(OrdUpper)

\* C9: a transaction without an output of one satoshi makes scan_tx return
\* Ok with an empty list.
C9_NoOneSatEmpty ==
    (pc = "done" /\ \A i \in DOMAIN tx.outputs : tx.outputs[i].value # 1)
        => out = Some(Ok(<<>>))

\* C9 happens: scan_tx has returned for a transaction of two outputs, none of
\* one satoshi, one of them with a whole envelope as its script.
C9_Witness ==
    /\ pc = "done"
    /\ Len(tx.outputs) = 2
    /\ \A i \in DOMAIN tx.outputs : tx.outputs[i].value # 1
    /\ \E i \in DOMAIN tx.outputs :
         tx.outputs[i].script.ok /\ WellFormed(tx.outputs[i].script.ops)

\* C10: every record has no prev_id, no new_address and must_be_creation
\* false.
C10_DeferredFields ==
    \A r \in Records :
        /\ r.prev_id = None
        /\ r.new_address = None
        /\ r.must_be_creation = FALSE

\* C10 happens: scan_tx has returned two records.
C10_Witness ==
    /\ pc = "done"
    /\ Len(result) = 2

\* scan_tx as a function of its argument: the records of the outputs from
\* place i on
RECURSIVE ScanOutputs(_, _)
ScanOutputs(t, i) ==
    IF i > Len(t.outputs) THEN <<>>
    ELSE LET found == scan_output(t.outputs[i], t.hash, i - 1)
         IN (IF found = None THEN <<>> ELSE <<found[1]>>) \o ScanOutputs(t, i + 1)

\* C11: scanning carries nothing from one call to the next: whatever was
\* scanned before, two calls of scan_tx on the same transaction return equal
\* lists, which are the list the transaction alone decides.
C11_Deterministic ==
    /\ \A a, b \in seen : a[1] = b[1] => a[2] = b[2]
    /\ \A a \in seen : a[2] = Some(Ok(ScanOutputs(a[1], 1)))

\* C11 happens: a transaction that was scanned before is being scanned
\* again, after scans of other transactions, and scan_output has found its
\* record.
C11_Witness ==
    /\ Returned
    /\ \E a \in seen : a[1] = tx
    /\ Cardinality(seen) >= 3
    /\ ret # None
    /\ ret[1].creation_data = {}

\* C12 as stated (the doc comments of lines 33-37): creation_data holds the
\* fields with an even number and metadata the fields with an odd number.
C12_DocParity ==
    \A r \in Records :
        /\ \A k \in BTreeMapKeys(r.creation_data) : IsEven(k)
        /\ \A k \in BTreeMapKeys(r.metadata) : IsOdd(k)

\* the marker begins at place i of s
MarkerAt(s, i) ==
    /\ i + 2 <= Len(s)
    /\ eq_alias(s[i], OP_FALSE)
    /\ s[i + 1] = OP_IF
    /\ s[i + 2].opcode = "OP_PUSH"
    /\ s[i + 2].data = Ord
\* scan_output has returned a record
Accepted == ReturnedFromOps /\ ret # None
\* the place of the last marker among the operations read
LastMarker ==
    CHOOSE i \in 1..pos :
        /\ MarkerAt(ops, i)
        /\ \A i2 \in (i + 1)..(pos - 1) : ~MarkerAt(ops, i2)
\* the operations of the attempt that was accepted: from the last marker to
\* the last operation read
AcceptedOps == SubSeq(ops, LastMarker, pos - 1)
\* the maps are emptied and the key is set to 0
Cleared == creation_data' = BTreeMapNew /\ metadata' = BTreeMapNew /\ key' = 0
\* a turn of the operation loop that does not return
LoopTurn == pc = "ops" /\ pc' = "ops"

\* C13: the maps and the key are cleared when, and only when, "ord" is
\* matched in OpIfSeen (a reset to Initial leaves them as they are), so a
\* record holds the pairs read since the last match of "ord" and no pair of
\* an attempt that failed before it.
C13_ClearedAtOrd ==
    /\ [](Accepted
            => /\ HasMarker(SubSeq(ops, 1, pos - 1))
               /\ WellFormed(AcceptedOps)
               /\ ret[1].creation_data \cup ret[1].metadata
                    = LastPairs(PairsOf(AcceptedOps)))
    /\ [][LoopTurn
            => IF state = "OpIfSeen" /\ state' = "InEnvelope"
               THEN Cleared
               ELSE /\ BTreeMapKeys(creation_data) \subseteq BTreeMapKeys(creation_data')
                    /\ BTreeMapKeys(metadata) \subseteq BTreeMapKeys(metadata')
                    /\ state' = "Initial" => UNCHANGED <<creation_data, metadata, key>>]_vars

\* C13 happens: an attempt stored the pair of key 1 and failed, and the
\* record of the envelope behind it has no pair of key 1.
C13_Witness ==
    /\ Accepted
    /\ LastMarker > 5
    /\ MarkerAt(ops, 1)
    /\ ops[4] = OP_1
    /\ ops[5] = OP_PUSH(Mime)
    /\ ret[1].creation_data = {}

\* a turn of the operation loop is about to read an operation in state s
Reading(s) == pc = "ops" /\ pos <= Len(ops) /\ state = s

\* C14: an operation that resets the state to Initial is consumed and not
\* tested again as the start of a marker: an OP_FALSE read in OpFalseSeen,
\* OpIfSeen, InEnvelope or GotBody does not leave the state at OpFalseSeen,
\* and a script that is an OP_FALSE followed by a whole envelope (OP_FALSE,
\* OP_FALSE, OP_IF, "ord", 0, body, OP_ENDIF) has no record.
C14_ResetConsumes ==
    /\ []((ReturnedFromOps /\ Len(ops) >= 7 /\ ops[1] = OP_FALSE /\ WellFormed(Tail(ops)))
            => ret = None)
    /\ [][(pc = "ops" /\ pos <= Len(ops) /\ state # "Initial" /\ state' = "Initial")
            => pos' = pos + 1]_vars
    /\ [][(pc = "ops" /\ pos <= Len(ops) /\ eq_alias(ops[pos], OP_FALSE)
             /\ state \in {"OpFalseSeen", "OpIfSeen", "InEnvelope", "GotBody"})
            => (pos' = pos + 1 /\ state' # "OpFalseSeen")]_vars

\* C14 happens: OP_FALSE, OP_FALSE, OP_IF, "ord", 0, body, OP_ENDIF has been
\* scanned to its end.
C14_Witness ==
    /\ ReturnedFromOps
    /\ ops = <<OP_FALSE>> \o Envelope(<<>>, Body)
    /\ pos = 8
    /\ ret = None

\* the places of the pairs of the accepted attempt
AcceptedPairs == PairsOf(AcceptedOps)

\* C15 as stated: in an accepted envelope no key is written twice.
C15_KeyWrittenOnce ==
    Accepted
        => \A i, j \in DOMAIN AcceptedPairs :
             i # j => AcceptedPairs[i][1] # AcceptedPairs[j][1]

\* C15, as amended: in an accepted envelope key 0 is written once, by the
\* last pair; another key may be written again in the same attempt, and then
\* the record holds the value written last and not the one before.
C15_OnlyKeyZeroOnce ==
    Accepted
        => /\ WellFormed(AcceptedOps)
           /\ Cardinality({j \in DOMAIN AcceptedPairs : AcceptedPairs[j][1] = 0}) = 1
           /\ \A i, j \in DOMAIN AcceptedPairs :
                (i < j /\ AcceptedPairs[i][1] = AcceptedPairs[j][1])
                  => /\ AcceptedPairs[i][1] # 0
                     /\ \E p \in ret[1].creation_data \cup ret[1].metadata :
                          /\ p[1] = AcceptedPairs[i][1]
                          /\ \E j2 \in DOMAIN AcceptedPairs : j2 > i /\ p = AcceptedPairs[j2]
                     /\ AcceptedPairs[i][2] # AcceptedPairs[j][2]
                          => \/ AcceptedPairs[i] \notin ret[1].creation_data \cup ret[1].metadata
                             \/ \E j2 \in DOMAIN AcceptedPairs :
                                  j2 > j /\ AcceptedPairs[j2] = AcceptedPairs[i]

\* C15 happens: an accepted envelope wrote key 1 twice, with two values.
C15_Witness ==
    /\ Accepted
    /\ \E i, j \in DOMAIN AcceptedPairs :
         /\ i < j
         /\ AcceptedPairs[i] = <<1, Mime>>
         /\ AcceptedPairs[j] = <<1, Alt>>
    /\ ret[1].creation_data = {<<1, Alt>>}

\* C16: in OpIfSeen only a push of exactly the three bytes "ord" leads to
\* InEnvelope; every other push and every operation that is no push resets
\* the state to Initial.
C16_OnlyOrdOpens ==
    [][Reading("OpIfSeen")
         => /\ pc' = "ops"
            /\ state' = IF data_pushed(ops[pos]) = Some(Ord) THEN "InEnvelope" ELSE "Initial"]_vars

\* C16 happens: "ORD" has been read in OpIfSeen.
C16_Witness ==
    /\ pc = "ops"
    /\ pos = 4
    /\ ops[1] = OP_FALSE
    /\ ops[2] = OP_IF
    /\ ops[3] = OP_PUSH(OrdUpper)
    /\ state = "Initial"

\* C17: in InEnvelope only a push of a small integer is a key: it is kept in
\* key and the state becomes GotKey; a push of anything else and an operation
\* that is no push reset the state to Initial; nothing is stored in the maps.
C17_OnlySmallIntKeys ==
    [][Reading("InEnvelope")
         => /\ pc' = "ops"
            /\ UNCHANGED <<creation_data, metadata>>
            /\ IF small_num_pushed(ops[pos]) # None
               THEN state' = "GotKey" /\ key' = small_num_pushed(ops[pos])[1]
               ELSE state' = "Initial" /\ UNCHANGED key]_vars

\* C17 happens: a push of bytes has been read in InEnvelope.
C17_Witness ==
    /\ pc = "ops"
    /\ pos = 5
    /\ MarkerAt(ops, 1)
    /\ ops[4] = OP_PUSH(Body)
    /\ state = "Initial"

\* C18: key 0 ends the field list: a value stored in GotKey leads to GotBody
\* if the pending key is 0 and to InEnvelope if it is not; a record is
\* returned only by OP_ENDIF read in GotBody; so in an accepted envelope the
\* pair read last is the pair of key 0, and OP_ENDIF comes right after it.
C18_KeyZeroTerminates ==
    /\ [][(Reading("GotKey") /\ is_data_push(ops[pos]) /\ data_pushed(ops[pos]) # None)
            => /\ pc' = "ops"
               /\ state' = IF key = 0 THEN "GotBody" ELSE "InEnvelope"
               /\ <<key, data_pushed(ops[pos])[1]>> \in creation_data' \cup metadata']_vars
    /\ [][(pc = "ops" /\ pc' = "returned" /\ ret' # None)
            => (pos <= Len(ops) /\ state = "GotBody" /\ ops[pos] = OP_ENDIF)]_vars
    /\ [](Accepted
            => /\ WellFormed(AcceptedOps)
               /\ AcceptedPairs[Len(AcceptedPairs)][1] = 0
               /\ \A j \in 1..(Len(AcceptedPairs) - 1) : AcceptedPairs[j][1] # 0
               /\ small_num_pushed(ops[pos - 3]) = Some(0)
               /\ data_pushed(ops[pos - 2]) # None
               /\ ops[pos - 1] = OP_ENDIF)

\* C18 happens: an accepted envelope in which the value of key 2 was stored
\* and the field list went on to key 0.
C18_Witness ==
    /\ Accepted
    /\ Len(AcceptedPairs) = 2
    /\ AcceptedPairs[1][1] = 2
    /\ <<2, Alt>> \in ret[1].metadata

\* C19: when the operations run out, in whatever state, scan_output returns
\* None: a script without OP_ENDIF, such as an envelope that ends with its
\* body, has no record, and what the maps hold by then is not reported.
C19_ExhaustedNone ==
    /\ [][(pc = "ops" /\ pos > Len(ops))
            => (pc' = "returned" /\ ret' = None /\ UNCHANGED <<result, out>>)]_vars
    /\ []((ReturnedFromOps /\ \A i \in 1..Len(ops) : ops[i] # OP_ENDIF) => ret = None)
    /\ []((ReturnedFromOps /\ pos = Len(ops) + 1 /\ (Len(ops) = 0 \/ ops[Len(ops)] # OP_ENDIF))
            => ret = None)

\* C19 happens: the operations ran out in GotBody, with the body stored.
C19_Witness ==
    /\ ReturnedFromOps
    /\ pos = Len(ops) + 1
    /\ state = "GotBody"
    /\ <<0, Body>> \in metadata
    /\ <<1, Mime>> \in creation_data
    /\ ret = None

\* the longest script of the transaction, in operations
Longest ==
    LET lens == {0} \cup {Len(decode(tx.outputs[i].script)[1]) :
                            i \in {j \in DOMAIN tx.outputs : decode(tx.outputs[j].script) # None}}
    IN CHOOSE n \in lens : \A m \in lens : m <= n

\* what is left to do: the outputs not yet visited, and the rest of the visit
\* of this one
Measure ==
    (Len(tx.outputs) - cursor) * (Longest + 5)
      + CASE pc = "scan_tx" -> 1
          [] pc = "scan_output" -> Longest + 5
          [] pc = "ops" -> Len(ops) - pos + 4
          [] pc = "returned" -> 2
          [] pc = "done" -> 0

\* C20: scan_output ends: a turn of the loop consumes the next operation of
\* the script, so there are at most as many turns as operations; scan_tx
\* ends after it visited each output once. Every step brings the end nearer,
\* and a step can be taken until scan_tx has returned.
C20_Terminates ==
    /\ [](Measure >= 0)
    /\ [](pc # "done" => ENABLED Next)
    /\ [](pc \in {"ops", "returned"} => pos <= Len(ops) + 1)
    /\ [](pc = "done" => cursor = Len(tx.outputs))
    /\ [][Measure' < Measure]_vars
    /\ [][(pc = "ops" /\ pos <= Len(ops)) => (pos' = pos + 1 /\ ops' = ops)]_vars
    /\ [][cursor' # cursor
            => (cursor' = cursor + 1 /\ cursor' <= Len(tx.outputs) /\ tx' = tx)]_vars

\* C20 happens: scan_tx has returned after two outputs, the second with a
\* script of more than six operations read to its end.
C20_Witness ==
    /\ pc = "done"
    /\ Len(tx.outputs) = 2
    /\ cursor = 2
    /\ Len(ops) > 6
    /\ pos = Len(ops) + 1

\* the place of a state in the order Initial, OpFalseSeen, OpIfSeen,
\* InEnvelope, GotKey, GotBody
Rank(s) ==
    CASE s = "Initial" -> 0
      [] s = "OpFalseSeen" -> 1
      [] s = "OpIfSeen" -> 2
      [] s = "InEnvelope" -> 3
      [] s = "GotKey" -> 4
      [] s = "GotBody" -> 5

\* C21 as stated: every change of the state goes to a later state of the
\* order or is a reset to Initial.
C21_ForwardOrReset ==
    [][state' # state => (Rank(state') > Rank(state) \/ state' = "Initial")]_vars

\* C21, as amended: every change of the state goes to the next state of the
\* order, or is a reset to Initial, or is the return from GotKey to InEnvelope
\* that follows the storing of the value of a key other than 0; there is no
\* other change backwards.
C21_ForwardResetOrNextKey ==
    [][state' # state
         => \/ Rank(state') = Rank(state) + 1
            \/ state' = "Initial"
            \/ /\ Reading("GotKey")
               /\ state' = "InEnvelope"
               /\ key # 0
               /\ data_pushed(ops[pos]) # None
               /\ <<key, data_pushed(ops[pos])[1]>> \in creation_data' \cup metadata']_vars

\* C21 happens: the value of key 1 has been stored and the state is back at
\* InEnvelope.
C21_Witness ==
    /\ pc = "ops"
    /\ pos = 6
    /\ MarkerAt(ops, 1)
    /\ ops[4] = OP_1
    /\ state = "InEnvelope"
    /\ creation_data = {<<1, Mime>>}

\* C22: the routing by parity holds for every key the small-integer check
\* gives, the negative ones too: a value of an odd key (such as -1, with
\* -1 % 2 = -1) is stored in creation_data and nothing is stored in metadata,
\* a value of an even key is stored in metadata and nothing in creation_data;
\* so creation_data never holds an even key nor metadata an odd one.
C22_NegativeKeyParity ==
    /\ [][(Reading("GotKey") /\ is_data_push(ops[pos]) /\ data_pushed(ops[pos]) # None)
            => IF IsOdd(key)
               THEN /\ <<key, data_pushed(ops[pos])[1]>> \in creation_data'
                    /\ metadata' = metadata
               ELSE /\ IsEven(key)
                    /\ <<key, data_pushed(ops[pos])[1]>> \in metadata'
                    /\ creation_data' = creation_data]_vars
    /\ [](/\ \A k \in BTreeMapKeys(creation_data) : IsOdd(k)
          /\ \A k \in BTreeMapKeys(metadata) : IsEven(k))

\* C22 happens: the value of key -1 has been stored.
C22_Witness ==
    /\ pc = "ops"
    /\ pos = 6
    /\ MarkerAt(ops, 1)
    /\ ops[4] = OP_1NEGATE
    /\ key = -1
    /\ creation_data = {<<-1, Mime>>}
    /\ metadata = {}

====
